---- MODULE Spec2Model ----
(***************************************************************************)
(* Telemetry aggregation and routing service (src/main.py).                *)
(*                                                                         *)
(* State: the global_telemetry table (store), the api_keys table, the      *)
(* wall clock, and for the request that ran last its payload, the locals   *)
(* of its handler, the key hashes verify_key looked up for it, and its     *)
(* response.                                                               *)
(*                                                                         *)
(* Numbers.  Latencies are integers (Column(Integer)), here >= 0.  The     *)
(* handlers compute floats; the model keeps them exact:                    *)
(*   mean        S/n                      as the pair (S, n)               *)
(*   np.std      sqrt(n*SumSq - S^2)/n    as the radicand n*SumSq - S^2    *)
(*   percentile  linear interpolation     as 100 * p99 (an integer)        *)
(*   score       (num + sqrt(rad))/den + pen   as [num, den, rad, pen]     *)
(* int(x) of a non-negative x is its floor, computed exactly.  Only the    *)
(* Hurst estimate needs logarithms; it is computed in fixed point          *)
(* (thousandths), see calculate_hurst.  Rounding of the floats themselves  *)
(* is not modelled.  Time is counted in minutes.  The queries are those of *)
(* a store that answers; a failing store is modelled for the ingest.       *)
(***************************************************************************)
EXTENDS Integers, Sequences, FiniteSets, TLC

VARIABLES store, api_keys, now, req, resp, raw, groups, scored_brokers,
          key_lookups

vars ==
    <<store, api_keys, now, req, resp, raw, groups, scored_brokers, key_lookups>>

----------------------------------------------------------------------------
(* Bounds of the model *)

MaxStore == 5
MaxTime == 3
MaxSources == 3

(* Program constants *)

WindowMinutes == 2
MinSamplesGlobal == 5
MinSamplesRoute == 3
HurstMinLen == 20
HurstMaxLag == 20
HistoryLen == 30
HurstPenalty == 200
FatTailPenalty == 100

\* None; no name or key of the model equals it
Null == <<"None">>

----------------------------------------------------------------------------
(* Sequences of integers *)

RECURSIVE SumTo(_, _)
SumTo(s, k) == IF k = 0 THEN 0 ELSE s[k] + SumTo(s, k - 1)

\* sum(s)
SumSeq(s) == SumTo(s, Len(s))

RECURSIVE SumSqTo(_, _)
SumSqTo(s, k) == IF k = 0 THEN 0 ELSE s[k] * s[k] + SumSqTo(s, k - 1)

\* sum(x * x for x in s)
SumSq(s) == SumSqTo(s, Len(s))

\* sorted(s), ascending: the element at position i of s goes to the position
\* given by the number of elements that sort before it (equal elements keep
\* their order)
SortAsc(s) ==
    LET n == Len(s)
        pos == [i \in 1..n |->
                   Cardinality({j \in 1..n : s[j] < s[i] \/ (s[j] = s[i] /\ j <= i)})]
    IN  [k \in 1..n |-> s[CHOOSE i \in 1..n : pos[i] = k]]

\* floor(sqrt(v)) for v >= 0, by bisection on [lo, hi)
RECURSIVE SqrtBetween(_, _, _)
SqrtBetween(v, lo, hi) ==
    IF hi - lo <= 1 THEN lo
    ELSE LET mid == (lo + hi) \div 2
         IN  IF mid * mid <= v THEN SqrtBetween(v, mid, hi)
             ELSE SqrtBetween(v, lo, mid)

ISqrt(v) == SqrtBetween(v, 0, IF v < 46340 THEN v + 1 ELSE 46341)

\* lats[-k:]
LastK(s, k) == IF Len(s) <= k THEN s ELSE SubSeq(s, Len(s) - k + 1, Len(s))

----------------------------------------------------------------------------
(* Statistics of one latency list *)

\* n^2 * variance: np.std(lats) = sqrt(VarNum(lats)) / Len(lats)
VarNum(lats) == Len(lats) * SumSq(lats) - SumSeq(lats) * SumSeq(lats)

\* int(np.std(lats))
IntStd(lats) == ISqrt(VarNum(lats)) \div Len(lats)

\* variant: the nearest-rank percentile, sorted[min(floor(0.99 * n), n - 1)]
P99NearestRankx100(lats) ==
    LET n == Len(lats)
        idx == IF (99 * n) \div 100 < n - 1 THEN (99 * n) \div 100 ELSE n - 1
    IN  100 * SortAsc(lats)[idx + 1]

\* 100 * np.percentile(lats, 99): linear interpolation between the order
\* statistics around the virtual index 0.99 * (n - 1)
P99x100(lats) ==
    LET n == Len(lats)
        s == SortAsc(lats)
        h == 99 * (n - 1)
        lo == h \div 100
        fr == h % 100
    IN  IF lo + 1 >= n THEN 100 * s[n]
        ELSE 100 * s[lo + 1] + fr * (s[lo + 2] - s[lo + 1])

----------------------------------------------------------------------------
(* calculate_hurst, in fixed point: logarithms and the result in thousandths *)

\* 1000 * ln(1 + j/16) for j = 0..16
LnTable ==
    <<0, 61, 118, 172, 223, 272, 318, 363, 405, 446, 486, 523, 560, 595, 629,
      662, 693>>

\* v = m * 2^e with 1024 <= m < 2048 (m truncated when v >= 2048)
RECURSIVE Normalise(_, _)
Normalise(v, e) ==
    IF v < 1024 THEN Normalise(2 * v, e - 1)
    ELSE IF v >= 2048 THEN Normalise(v \div 2, e + 1)
    ELSE <<v, e>>

\* np.log(v) in thousandths, v >= 1: exponent * ln 2 plus the table,
\* interpolated linearly; within 0.003 of the logarithm
LnMilli(v) ==
    LET me == Normalise(v, 0)
        f == me[1] - 1024
        j == f \div 64
    IN  ((me[2] + 10) * 69315) \div 100 + LnTable[j + 1]
          + ((LnTable[j + 2] - LnTable[j + 1]) * (f % 64)) \div 64

\* np.subtract(ts[lag:], ts[:-lag])
LagDiff(ts, lag) == [i \in 1..(Len(ts) - lag) |-> ts[i + lag] - ts[i]]

\* 2 * np.log(tau) in thousandths for tau = np.std(LagDiff), where a tau that
\* is not positive is replaced by 1e-6 (2 * ln 1e-6 = -27.631)
LogTau2(ts, lag) ==
    LET d == LagDiff(ts, lag)
        v == VarNum(d)
    IN  IF v > 0 THEN LnMilli(v) - 2 * LnMilli(Len(d)) ELSE 0 - 27631

\* 1000 * calculate_hurst(ts): twice the least-squares slope of log(tau)
\* against log(lag) over lags = range(2, min(20, len(ts) // 2))
calculate_hurst(ts) ==
    IF Len(ts) < HurstMinLen THEN 500
    ELSE
      LET half == Len(ts) \div 2
          top == IF HurstMaxLag < half THEN HurstMaxLag ELSE half
          N == top - 2
          x == [i \in 1..N |-> LnMilli(i + 1)]
          y == [i \in 1..N |-> LogTau2(ts, i + 1)]
          sx == SumSeq(x)
          sxy == SumSeq([i \in 1..N |-> ((N * x[i] - sx) * y[i]) \div 1000])
          sxx == SumSeq([i \in 1..N |-> ((N * x[i] - sx) * x[i]) \div 1000])
      IN  (sxy * 100) \div (sxx \div 10)

----------------------------------------------------------------------------
(* Strings: a name is a sequence of characters *)

LowerChar(c) ==
    CASE c = "A" -> "a"
      [] c = "B" -> "b"
      [] c = "K" -> "k"
      [] c = "X" -> "x"
      [] OTHER -> c

\* str.lower()
Lower(name) == [i \in 1..Len(name) |-> LowerChar(name[i])]

\* str.startswith(prefix)
StartsWith(s, prefix) ==
    Len(s) >= Len(prefix) /\ SubSeq(s, 1, Len(prefix)) = prefix

----------------------------------------------------------------------------
(* Inputs *)

\* payload.broker as clients send it
BrokerNames == {<<"k", "x">>, <<"K", "x">>, <<"b">>}

Urgencies == {"normal", "high"}

KeyActive == <<"s", "k", "_", "1">>
KeyRevoked == <<"s", "k", "_", "2">>
KeyUnknown == <<"s", "k", "_", "3">>
KeyBadFormat == <<"p", "k", "_", "1">>

\* the X-Pro-Key header: absent, or one of four keys
PresentedKeys == {Null, KeyBadFormat, KeyUnknown, KeyRevoked, KeyActive}

\* hashlib.sha256(key.encode()).hexdigest(): a digest is not the key, and
\* distinct keys of the model have distinct digests
Sha256Hex(key) == <<"sha256", key>>

NoRequest == [op |-> "none"]
NoResponse == [code |-> 0, body |-> Null]

----------------------------------------------------------------------------
(* The window query and the grouping shared by both read handlers *)

\* variant: the filter with > in place of >=
SamplesSinceStrict(tbl, since) == SelectSeq(tbl, LAMBDA r : r.timestamp > since)

\* db.query(TelemetryDB).filter(TelemetryDB.timestamp >= since).all()
SamplesSince(tbl, since) == SelectSeq(tbl, LAMBDA r : r.timestamp >= since)

\* variant: "data[r.broker] = [r.latency_ms]" in place of the append
GroupLatsOverwrite(rows, b) ==
    LET hits == SelectSeq(rows, LAMBDA r : r.broker = b)
    IN  <<hits[Len(hits)].latency_ms>>

\* data[b] once "for r in raw" has run: the latency of every row of b was
\* appended, in the order of the rows
GroupLats(rows, b) ==
    LET hits == SelectSeq(rows, LAMBDA r : r.broker = b)
    IN  [i \in 1..Len(hits) |-> hits[i].latency_ms]

\* the keys of the dict in insertion order: a key is inserted by the first
\* row of its broker
GroupKeys(rows) ==
    LET names == {rows[i].broker : i \in 1..Len(rows)}
        first == [b \in names |->
                     CHOOSE i \in 1..Len(rows) :
                         /\ rows[i].broker = b
                         /\ \A j \in 1..(i - 1) : rows[j].broker # b]
    IN  [k \in 1..Cardinality(names) |->
            CHOOSE b \in names :
                Cardinality({c \in names : first[c] <= first[b]}) = k]

\* the dict data / candidates: broker -> list of latency_ms
GroupByBroker(rows) ==
    LET keys == GroupKeys(rows)
    IN  [k \in 1..Len(keys) |-> [broker |-> keys[k], lats |-> GroupLats(rows, keys[k])]]

----------------------------------------------------------------------------
(* get_global_map *)

\* min(1.0, avg / (global_avg + 1)) as a fraction num/den
Correlation(lats, all_latencies) ==
    LET num == SumSeq(lats) * Len(all_latencies)
        den == Len(lats) * (SumSeq(all_latencies) + Len(all_latencies))
    IN  IF num >= den THEN [num |-> 1, den |-> 1] ELSE [num |-> num, den |-> den]

GlobalEntry(g, all_latencies) ==
    [broker |-> g.broker,
     p99 |-> P99x100(g.lats) \div 100,
     jitter |-> IntStd(g.lats),
     hurst |-> calculate_hurst(g.lats),
     correlation |-> Correlation(g.lats, all_latencies),
     history |-> LastK(g.lats, HistoryLen)]

RECURSIVE InsertByP99(_, _)
InsertByP99(x, s) ==
    IF s = <<>> THEN <<x>>
    ELSE IF x.p99 <= Head(s).p99 THEN <<x>> \o s
    ELSE <<Head(s)>> \o InsertByP99(x, Tail(s))

\* sorted(results, key=lambda x: x['p99']), stable
RECURSIVE SortByP99(_)
SortByP99(s) == IF s = <<>> THEN <<>> ELSE InsertByP99(Head(s), SortByP99(Tail(s)))

\* "if len(lats) < 5: continue"
GlobalQualifies(g) == Len(g.lats) >= MinSamplesGlobal

GlobalResults(data, all_latencies) ==
    LET kept == SelectSeq(data, GlobalQualifies)
    IN  SortByP99([i \in 1..Len(kept) |-> GlobalEntry(kept[i], all_latencies)])

----------------------------------------------------------------------------
(* get_smart_route *)

\* the metrics computed per candidate: avg_lat = sum / n,
\* jitter = sqrt(varnum) / n, hurst in thousandths, p99 in hundredths
Metrics(lats) ==
    [sum |-> SumSeq(lats), n |-> Len(lats), varnum |-> VarNum(lats),
     hurst |-> calculate_hurst(lats), p99x100 |-> P99x100(lats)]

\* "if hurst > 0.6"
HighHurst(m) == m.hurst > 600

\* variant: the test without the factor 3
FatTailNoFactor(m) == m.p99x100 * m.n > 100 * m.sum

\* "if p99 > (avg_lat * 3)"
FatTail(m) == m.p99x100 * m.n > 300 * m.sum

\* variant: the score without the urgency override
ScoreIgnoringUrgency(m, urgency) ==
    [num |-> m.sum, den |-> m.n, rad |-> 4 * m.varnum,
     pen |-> (IF HighHurst(m) THEN HurstPenalty ELSE 0)
           + (IF FatTail(m) THEN FatTailPenalty ELSE 0)]

\* the local "score", exactly: (num + sqrt(rad)) / den + pen, where
\* avg_lat + jitter * 2 = (sum + sqrt(4 * varnum)) / n
Score(m, urgency) ==
    IF urgency = "high"
    THEN [num |-> m.sum, den |-> m.n, rad |-> 0, pen |-> 0]
    ELSE [num |-> m.sum, den |-> m.n, rad |-> 4 * m.varnum,
          pen |-> (IF HighHurst(m) THEN HurstPenalty ELSE 0)
                + (IF FatTail(m) THEN FatTailPenalty ELSE 0)]

\* int(score)
IntScore(sc) == (sc.num + ISqrt(sc.rad)) \div sc.den + sc.pen

RiskFlags(m) ==
    (IF HighHurst(m) THEN <<"Unstable (High Hurst)">> ELSE <<>>)
    \o (IF FatTail(m) THEN <<"Fat Tail Risk">> ELSE <<>>)

\* the dict appended to scored_brokers; "exact" is the local score it was
\* built from, kept beside it
ScoredEntry(g, urgency) ==
    LET m == Metrics(g.lats)
        sc == Score(m, urgency)
    IN  [broker |-> g.broker,
         score |-> IntScore(sc),
         latency_ms |-> m.sum \div m.n,
         risk_flags |-> RiskFlags(m),
         exact |-> sc]

\* variant: the threshold one lower
RouteQualifiesOffByOne(g) == Len(g.lats) >= MinSamplesRoute - 1

\* "if len(lats) < 3: continue"
RouteQualifies(g) == Len(g.lats) >= MinSamplesRoute

RECURSIVE InsertByScore(_, _)
InsertByScore(x, s) ==
    IF s = <<>> THEN <<x>>
    ELSE IF x.score <= Head(s).score THEN <<x>> \o s
    ELSE <<Head(s)>> \o InsertByScore(x, Tail(s))

\* scored_brokers.sort(key=lambda x: x['score']), stable
RECURSIVE SortByScore(_)
SortByScore(s) ==
    IF s = <<>> THEN <<>> ELSE InsertByScore(Head(s), SortByScore(Tail(s)))

ScoredBrokers(candidates, urgency) ==
    LET kept == SelectSeq(candidates, RouteQualifies)
    IN  SortByScore([i \in 1..Len(kept) |-> ScoredEntry(kept[i], urgency)])

\* the dict as the response carries it
Public(e) ==
    [broker |-> e.broker, score |-> e.score, latency_ms |-> e.latency_ms,
     risk_flags |-> e.risk_flags]

\* scored_brokers[1:3]
Alternatives(sb) ==
    [i \in 1..(IF Len(sb) >= 3 THEN 2 ELSE IF Len(sb) = 2 THEN 1 ELSE 0) |->
        Public(sb[i + 1])]

\* variant: no_data also for a single scored broker
RouteBodyOffByOne(sb) ==
    IF Len(sb) <= 1 THEN [status |-> "no_data", recommendation |-> Null]
    ELSE [status |-> "optimized",
          recommendation |-> sb[1].broker,
          metrics |-> [expected_latency |-> sb[1].latency_ms,
                       risk_factors |-> sb[1].risk_flags],
          alternatives |-> Alternatives(sb)]

\* "if not scored_brokers: return no_data", else the recommendation
RouteBody(sb) ==
    IF sb = <<>> THEN [status |-> "no_data", recommendation |-> Null]
    ELSE [status |-> "optimized",
          recommendation |-> sb[1].broker,
          metrics |-> [expected_latency |-> sb[1].latency_ms,
                       risk_factors |-> sb[1].risk_flags],
          alternatives |-> Alternatives(sb)]

\* the hashes verify_key queries api_keys for: none when the header is
\* missing or does not start with "sk_" (the 401 is raised before the hash
\* is computed), else the hash of the presented key
KeyLookups(key) ==
    IF key = Null \/ ~StartsWith(key, <<"s", "k", "_">>) THEN <<>>
    ELSE <<Sha256Hex(key)>>

\* variant: the is_active test left out
VerifyKeyIgnoringRevocation(key, keys) ==
    IF key = Null \/ ~StartsWith(key, <<"s", "k", "_">>) THEN 401
    ELSE LET found == SelectSeq(keys, LAMBDA k : k.key_hash = Sha256Hex(key))
         IN  IF found = <<>> THEN 403 ELSE 200

\* verify_key: the status it raises, or 200 when it returns the user id
VerifyKey(key, keys) ==
    IF key = Null \/ ~StartsWith(key, <<"s", "k", "_">>) THEN 401
    ELSE LET found == SelectSeq(keys, LAMBDA k : k.key_hash = Sha256Hex(key))
         IN  IF found = <<>> THEN 403
             ELSE IF ~found[1].is_active THEN 403
             ELSE 200

----------------------------------------------------------------------------
(* Tables *)

\* a row of global_telemetry as submit_telemetry builds it; id and timestamp
\* are the column defaults (next row id, datetime.utcnow)
\* variant: the name stored as sent
TelemetryRowAsSent(tbl, payload, t) ==
    [id |-> Len(tbl) + 1, broker |-> payload.broker,
     latency_ms |-> payload.latency_ms, slippage |-> payload.slippage,
     status |-> payload.status, timestamp |-> t]

TelemetryRow(tbl, payload, t) ==
    [id |-> Len(tbl) + 1, broker |-> Lower(payload.broker),
     latency_ms |-> payload.latency_ms, slippage |-> payload.slippage,
     status |-> payload.status, timestamp |-> t]

\* api_keys as admin_create_key.py fills it, one key revoked since
InitialApiKeys ==
    <<[id |-> 1, key_hash |-> Sha256Hex(KeyActive), user_id |-> "u1",
       owner_name |-> "o1", is_active |-> TRUE],
      [id |-> 2, key_hash |-> Sha256Hex(KeyRevoked), user_id |-> "u2",
       owner_name |-> "o2", is_active |-> FALSE]>>

\* the pings clients send: each broker name with the latency its clients see
LatencyOf(name) == IF Lower(name) = <<"b">> THEN 40 ELSE 10

Payloads ==
    {[broker |-> n, latency_ms |-> LatencyOf(n), slippage |-> 0,
      status |-> "verified"] : n \in BrokerNames}

----------------------------------------------------------------------------
(* The service *)

Init ==
    /\ store = <<>>
    /\ api_keys = InitialApiKeys
    /\ now = 0
    /\ req = NoRequest
    /\ resp = NoResponse
    /\ raw = <<>>
    /\ groups = <<>>
    /\ scored_brokers = <<>>
    /\ key_lookups = <<>>

\* variant: the row survives the failed commit
StoreAfterFailedCommitKeepsRow(tbl, payload, t) ==
    Append(tbl, TelemetryRow(tbl, payload, t))

\* the table after a commit that raised: the session is closed by get_db and
\* the pending row is discarded
StoreAfterFailedCommit(tbl, payload, t) == tbl

\* POST /v1/telemetry.  dbOk = FALSE: db.add or db.commit raises
SubmitTelemetry(payload, dbOk) ==
    /\ Len(store) < MaxStore
    /\ req' = [op |-> "telemetry", payload |-> payload]
    /\ IF dbOk
       THEN /\ store' = Append(store, TelemetryRow(store, payload, now))
            /\ resp' = [code |-> 200, body |-> [status |-> "ok"]]
       ELSE /\ store' = StoreAfterFailedCommit(store, payload, now)
            /\ resp' = [code |-> 200, body |-> [status |-> "error"]]
    /\ raw' = <<>>
    /\ groups' = <<>>
    /\ scored_brokers' = <<>>
    /\ key_lookups' = <<>>
    /\ UNCHANGED <<api_keys, now>>

\* GET /v1/global_status
GetGlobalMap ==
    /\ req' = [op |-> "global_status"]
    /\ LET rows == SamplesSince(store, now - WindowMinutes)
           data == GroupByBroker(rows)
           all_latencies == [i \in 1..Len(rows) |-> rows[i].latency_ms]
       IN  /\ raw' = rows
           /\ groups' = data
           /\ resp' = [code |-> 200, body |-> GlobalResults(data, all_latencies)]
    /\ scored_brokers' = <<>>
    /\ key_lookups' = <<>>
    /\ UNCHANGED <<store, api_keys, now>>

\* POST /v1/oracle/route with its dependency verify_key
GetSmartRoute(key, urgency) ==
    /\ req' = [op |-> "route", key |-> key,
               body |-> [symbol |-> "BTC", size |-> 1, urgency |-> urgency]]
    /\ IF VerifyKey(key, api_keys) # 200
       THEN /\ resp' = [code |-> VerifyKey(key, api_keys), body |-> Null]
            /\ raw' = <<>> /\ groups' = <<>> /\ scored_brokers' = <<>>
       ELSE LET rows == SamplesSince(store, now - WindowMinutes)
                candidates == GroupByBroker(rows)
                sb == ScoredBrokers(candidates, urgency)
            IN  /\ raw' = rows
                /\ groups' = candidates
                /\ scored_brokers' = sb
                /\ resp' = [code |-> 200, body |-> RouteBody(sb)]
    /\ key_lookups' = KeyLookups(key)
    /\ UNCHANGED <<store, api_keys, now>>

\* a minute passes
Tick ==
    /\ now < MaxTime
    /\ now' = now + 1
    /\ req' = NoRequest
    /\ resp' = NoResponse
    /\ raw' = <<>>
    /\ groups' = <<>>
    /\ scored_brokers' = <<>>
    /\ key_lookups' = <<>>
    /\ UNCHANGED <<store, api_keys>>

Next ==
    \/ \E payload \in Payloads, dbOk \in BOOLEAN : SubmitTelemetry(payload, dbOk)
    \/ GetGlobalMap
    \/ \E key \in {Null, KeyActive}, urgency \in Urgencies :
          GetSmartRoute(key, urgency)
    \/ Tick

Spec == Init /\ [][Next]_vars

----------------------------------------------------------------------------
(* The read handlers over recorded windows: each source of a window has sent *)
(* one of the series below, one source after the other, within one minute   *)

SeriesNames == {<<"a">>, <<"b">>, <<"c">>, <<"d">>, <<"e">>, <<"f">>, <<"g">>}

Series(name) ==
    CASE name = <<"a">> ->
           <<50, 52, 49, 51, 50, 50, 52, 49, 51, 50, 50, 52, 49, 51, 50,
             50, 52, 49, 51, 50, 50, 52, 49, 51, 50>>
      [] name = <<"b">> -> <<500, 510, 495, 505, 2000>>
      [] name = <<"c">> ->
           <<0, 0, 0, 0, 0, 0, 0, 0, 0, 0, 0, 0, 0, 0, 1, 3, 6, 10, 15, 21>>
      [] name = <<"d">> -> <<1, 1, 2>>
      [] name = <<"e">> -> <<1, 1, 1>>
      [] name = <<"f">> -> <<20, 30, 20, 30>>
      [] name = <<"g">> -> <<7>>

RECURSIVE IngestSeries(_, _, _)
IngestSeries(tbl, name, lats) ==
    IF lats = <<>> THEN tbl
    ELSE IngestSeries(
           Append(tbl, TelemetryRow(tbl, [broker |-> name, latency_ms |-> Head(lats),
                                          slippage |-> 0, status |-> "verified"], 0)),
           name, Tail(lats))

RECURSIVE IngestAll(_, _)
IngestAll(tbl, names) ==
    IF names = <<>> THEN tbl
    ELSE IngestAll(IngestSeries(tbl, Head(names), Series(Head(names))), Tail(names))

\* the sources of a window, in the order they first reported
SourceOrders ==
    {o \in UNION {[1..k -> SeriesNames] : k \in 0..MaxSources} :
        \A i, j \in DOMAIN o : i # j => o[i] # o[j]}

InitBatch ==
    /\ store \in {IngestAll(<<>>, o) : o \in SourceOrders}
    /\ api_keys = InitialApiKeys
    /\ now = 0
    /\ req = NoRequest
    /\ resp = NoResponse
    /\ raw = <<>>
    /\ groups = <<>>
    /\ scored_brokers = <<>>
    /\ key_lookups = <<>>

NextBatch ==
    \/ GetGlobalMap
    \/ \E urgency \in Urgencies : GetSmartRoute(KeyActive, urgency)

SpecBatch == InitBatch /\ [][NextBatch]_vars

----------------------------------------------------------------------------
(* Vocabulary of the properties *)

\* the stored rows that lie in the window of a query issued now
InWindow(i) == store[i].timestamp >= now - 2

\* how many in-window samples a source has
InWindowCount(b) ==
    Cardinality({i \in 1..Len(store) : InWindow(i) /\ store[i].broker = b})

\* the latencies of the in-window samples of a source, oldest first
InWindowLatencies(b) ==
    LET rows == SelectSeq(store, LAMBDA r : r.timestamp >= now - 2 /\ r.broker = b)
    IN  [i \in 1..Len(rows) |-> rows[i].latency_ms]

StoredBrokers == {store[i].broker : i \in 1..Len(store)}

\* the request that ran last was answered by the handler's own return
GlobalAnswered == req.op = "global_status" /\ resp.code = 200
RouteAnswered == req.op = "route" /\ resp.code = 200
Optimized == RouteAnswered /\ resp.body.status = "optimized"

\* the sources a route answer names
RouteSources ==
    {resp.body.recommendation}
      \cup {resp.body.alternatives[i].broker : i \in DOMAIN resp.body.alternatives}

GlobalSources == {resp.body[i].broker : i \in DOMAIN resp.body}

----------------------------------------------------------------------------
\* C1 (as claimed): a source is in the global_status list, the route
\* recommendation or the route alternatives only if it has at least 5
\* samples in the current window.
C1_FiveEverywhere ==
    /\ GlobalAnswered => \A b \in GlobalSources : InWindowCount(b) >= 5
    /\ Optimized => \A b \in RouteSources : InWindowCount(b) >= 5

\* C1 (amended): a source is in the global_status list only if it has at
\* least 5 samples in the current window, and in the route recommendation or
\* alternatives only if it has at least 3.
C1_MinSamples ==
    /\ GlobalAnswered => \A b \in GlobalSources : InWindowCount(b) >= 5
    /\ Optimized => \A b \in RouteSources : InWindowCount(b) >= 3

\* a route answer recommends a source with 3 or 4 samples while another
\* source of the window, with fewer than 3, is left out
C1_Witness ==
    /\ Optimized
    /\ InWindowCount(resp.body.recommendation) \in {3, 4}
    /\ \E b \in StoredBrokers : InWindowCount(b) \in {1, 2} /\ b \notin RouteSources

\* C2: an authorised route query answers no_data with a null recommendation
\* exactly when no source has the route's minimum of 3 in-window samples, and
\* optimized with a recommendation exactly when one has; it never fails.
C2_NoDataIffNoneQualifies ==
    req.op = "route" /\ resp.code # 401 /\ resp.code # 403 =>
        /\ resp.code = 200
        /\ resp.body.status \in {"no_data", "optimized"}
        /\ (resp.body.status = "no_data")
             <=> ~\E b \in StoredBrokers : InWindowCount(b) >= 3
        /\ (resp.body.status = "no_data") <=> (resp.body.recommendation = Null)
        /\ resp.body.status = "optimized" =>
             /\ resp.body.recommendation \in StoredBrokers
             /\ InWindowCount(resp.body.recommendation) >= 3

\* no_data although the window holds samples: no source reaches 3
C2_Witness ==
    /\ RouteAnswered
    /\ resp.body.status = "no_data"
    /\ \E b \in StoredBrokers : InWindowCount(b) = 2

\* the answer of the handler that ran last is a query's
QueryAnswered == GlobalAnswered \/ RouteAnswered

\* the group of a source in the dict the query built, <<>> if it has none
GroupLatencies(b) ==
    LET hits == SelectSeq(groups, LAMBDA g : g.broker = b)
    IN  IF hits = <<>> THEN <<>> ELSE hits[1].lats

\* C5: a sample that submit_telemetry recorded is a row of the store with the
\* payload's latency and the time of the call, rows are never removed or
\* changed by later calls, and every query whose window contains the row's
\* timestamp fetches the row exactly once and has its latency exactly once,
\* in arrival order, in the latency list of its source.
C5_RoundTrip ==
    /\ [](req.op = "telemetry" /\ resp.body.status = "ok" =>
            /\ store # <<>>
            /\ store[Len(store)].latency_ms = req.payload.latency_ms
            /\ store[Len(store)].timestamp = now)
    /\ [](\A i, j \in 1..Len(store) : store[i].id = store[j].id => i = j)
    /\ [](QueryAnswered =>
            /\ \A i \in 1..Len(store) : InWindow(i) =>
                   Cardinality({j \in 1..Len(raw) : raw[j].id = store[i].id}) = 1
            /\ \A b \in StoredBrokers : GroupLatencies(b) = InWindowLatencies(b))
    /\ [][\A i \in 1..Len(store) : i <= Len(store') /\ store'[i] = store[i]]_vars

\* a query that fetched several samples of one source
C5_Witness ==
    /\ QueryAnswered
    /\ \E b \in StoredBrokers : Len(GroupLatencies(b)) >= 3
    /\ Len(groups) = 2

\* C6: a stored sample is fetched by a query issued at time now exactly when
\* its timestamp is >= now - 2 minutes, the groups are built from the fetched
\* samples only, time never goes back, and a source without a sample left in
\* the window is in no output.
C6_WindowOnly ==
    /\ [](QueryAnswered =>
            /\ \A i \in 1..Len(store) :
                   (\E j \in 1..Len(raw) : raw[j] = store[i])
                     <=> store[i].timestamp >= now - 2
            /\ \A j \in 1..Len(raw) : \E i \in 1..Len(store) : raw[j] = store[i]
            /\ \A k \in 1..Len(groups) :
                   groups[k].lats = InWindowLatencies(groups[k].broker))
    /\ [](GlobalAnswered => \A b \in GlobalSources : InWindowCount(b) > 0)
    /\ [](Optimized => \A b \in RouteSources : InWindowCount(b) > 0)
    /\ [][now' >= now]_vars

\* a query at a time when one source has aged out of the window entirely and
\* another still has samples in it, one of them at the window's edge
C6_Witness ==
    /\ QueryAnswered
    /\ \E b \in StoredBrokers : InWindowCount(b) = 0
    /\ \E i \in 1..Len(store) : store[i].timestamp = now - 2

\* C9: when the store fails during an ingest, submit_telemetry answers with
\* the error outcome (a normal response, no exception), and the call leaves
\* the store, the key table and the clock as they were, so that every later
\* call sees what it would have seen without it.
C9_FailedIngestLeavesStore ==
    /\ [](req.op = "telemetry" =>
            resp.code = 200 /\ resp.body.status \in {"ok", "error"})
    /\ [][req'.op = "telemetry" /\ resp'.body.status = "error" =>
            store' = store /\ api_keys' = api_keys /\ now' = now]_vars

\* a failed ingest into a store that already holds samples
C9_Witness ==
    /\ req.op = "telemetry"
    /\ resp.body.status = "error"
    /\ Len(store) >= 2

\* C10: every stored source name is lower-case, the row of a recorded sample
\* carries the lower-cased name of its payload, no two groups and no two
\* entries of an output have names that differ only in case, and the group of
\* a name holds all in-window samples whose name lower-cases to it.
C10_CaseNormalised ==
    /\ \A i \in 1..Len(store) : store[i].broker = Lower(store[i].broker)
    /\ req.op = "telemetry" /\ resp.body.status = "ok" =>
          store[Len(store)].broker = Lower(req.payload.broker)
    /\ QueryAnswered =>
          /\ \A k, l \in 1..Len(groups) :
                 Lower(groups[k].broker) = Lower(groups[l].broker) => k = l
          /\ \A k \in 1..Len(groups) :
                 Len(groups[k].lats) =
                   Cardinality({i \in 1..Len(store) :
                       InWindow(i) /\ Lower(store[i].broker) = Lower(groups[k].broker)})
    /\ GlobalAnswered =>
          \A k, l \in DOMAIN resp.body :
              Lower(resp.body[k].broker) = Lower(resp.body[l].broker) => k = l
    /\ Optimized =>
          /\ \A k \in DOMAIN resp.body.alternatives :
                 Lower(resp.body.alternatives[k].broker)
                   # Lower(resp.body.recommendation)
          /\ \A k, l \in DOMAIN resp.body.alternatives :
                 Lower(resp.body.alternatives[k].broker)
                   = Lower(resp.body.alternatives[l].broker) => k = l

\* a sample sent under a capitalised name joins the samples already stored
\* under the lower-case name
C10_Witness ==
    /\ req.op = "telemetry"
    /\ resp.body.status = "ok"
    /\ req.payload.broker # Lower(req.payload.broker)
    /\ InWindowCount(Lower(req.payload.broker)) >= 2

----------------------------------------------------------------------------
(* Exact comparison of scores *)

\* sqrt(a) - sqrt(b) <= c for integers a, b >= 0
SqrtDiffLeq(a, b, c) ==
    IF c >= 0
    THEN a - c * c - b <= 0
           \/ (a - c * c - b) * (a - c * c - b) <= 4 * c * c * b
    ELSE b - a - c * c >= 0
           /\ 4 * c * c * a <= (b - a - c * c) * (b - a - c * c)

\* s1 <= s2 for scores (num + sqrt(rad)) / den + pen; scores whose integer
\* parts differ are ordered by them
ScoreLeq(s1, s2) ==
    IF IntScore(s1) # IntScore(s2) THEN IntScore(s1) < IntScore(s2)
    ELSE SqrtDiffLeq(s2.den * s2.den * s1.rad, s1.den * s1.den * s2.rad,
                     s1.den * s2.num - s2.den * s1.num
                       + (s2.pen - s1.pen) * s1.den * s2.den)

\* the routing score of a source of the window, from its in-window samples:
\* mean + 2 * jitter plus penalties, or the mean under high urgency
RoutingScore(b) == Score(Metrics(InWindowLatencies(b)), req.body.urgency)

QualifyingSources == {b \in StoredBrokers : InWindowCount(b) >= 3}

\* C3 (as claimed): the recommended source has a routing score less than or
\* equal to that of every other qualifying source, and the alternatives are
\* the sources ranked 2nd and 3rd by that score: at most 2, in ascending
\* score order, without the recommended source.
C3_LowestScoreRecommended ==
    Optimized =>
        LET rec == resp.body.recommendation
            alt == resp.body.alternatives
        IN  /\ rec \in QualifyingSources
            /\ \A b \in QualifyingSources :
                   ScoreLeq(RoutingScore(rec), RoutingScore(b))
            /\ Len(alt) <= 2
            /\ Len(alt) = (IF Cardinality(QualifyingSources) >= 3 THEN 2
                           ELSE Cardinality(QualifyingSources) - 1)
            /\ \A k \in DOMAIN alt :
                   /\ alt[k].broker \in QualifyingSources \ {rec}
                   /\ ScoreLeq(RoutingScore(rec), RoutingScore(alt[k].broker))
                   /\ \A b \in QualifyingSources \ ({rec} \cup
                                {alt[l].broker : l \in 1..k}) :
                          ScoreLeq(RoutingScore(alt[k].broker), RoutingScore(b))
            /\ \A k, l \in DOMAIN alt :
                   k < l => ScoreLeq(RoutingScore(alt[k].broker),
                                     RoutingScore(alt[l].broker))

\* C4: under urgency "high" the score of every qualifying source is its mean
\* latency exactly (no jitter term, no penalty), and the integer it is ranked
\* by is the integer part of the mean, whatever flags the source carries.
C4_HighUrgencyIsMean ==
    RouteAnswered /\ req.body.urgency = "high" =>
        /\ {scored_brokers[k].broker : k \in DOMAIN scored_brokers}
             = QualifyingSources
        /\ \A k \in DOMAIN scored_brokers :
               LET lats == InWindowLatencies(scored_brokers[k].broker)
               IN  /\ scored_brokers[k].exact =
                        [num |-> SumSeq(lats), den |-> Len(lats), rad |-> 0,
                         pen |-> 0]
                   /\ scored_brokers[k].score = SumSeq(lats) \div Len(lats)
                   /\ scored_brokers[k].score = scored_brokers[k].latency_ms

\* a high-urgency answer over a source that has jitter and both risk flags
C4_Witness ==
    /\ RouteAnswered
    /\ req.body.urgency = "high"
    /\ \E k \in DOMAIN scored_brokers :
          /\ scored_brokers[k].risk_flags
               = <<"Unstable (High Hurst)", "Fat Tail Risk">>
          /\ VarNum(InWindowLatencies(scored_brokers[k].broker)) > 0

----------------------------------------------------------------------------
(* The two-source scenario *)

\* a normal-urgency route answer over a window that holds exactly source a
\* with [50,52,49,51,50] five times over and source b with
\* [500,510,495,505,2000]
ScenarioAB ==
    /\ RouteAnswered
    /\ req.body.urgency = "normal"
    /\ StoredBrokers = {<<"a">>, <<"b">>}
    /\ InWindowLatencies(<<"a">>) =
         <<50, 52, 49, 51, 50, 50, 52, 49, 51, 50, 50, 52, 49, 51, 50,
           50, 52, 49, 51, 50, 50, 52, 49, 51, 50>>
    /\ InWindowLatencies(<<"b">>) = <<500, 510, 495, 505, 2000>>

\* the entry of a source in scored_brokers
ScoredOf(b) ==
    scored_brokers[CHOOSE k \in DOMAIN scored_brokers : scored_brokers[k].broker = b]

\* C7 (as claimed): in the scenario b gets the +100 fat-tail penalty and the
\* flag "Fat Tail Risk", and a is ranked ahead of b and recommended.
C7_FatTailPenaltyOnB ==
    ScenarioAB =>
        /\ "Fat Tail Risk" \in {ScoredOf(<<"b">>).risk_flags[i] :
                                   i \in DOMAIN ScoredOf(<<"b">>).risk_flags}
        /\ ScoredOf(<<"b">>).exact.pen = 100
        /\ resp.body.recommendation = <<"a">>
        /\ scored_brokers[1].broker = <<"a">>

\* C7 (amended): in the scenario b gets no penalty and no flag (its p99,
\* 1940.4, does not exceed 3 times its mean, 3 * 802 = 2406); a, with the
\* score 52 against 2000, is ranked ahead of b and recommended, b being the
\* only alternative.
C7_NoFatTailOnB ==
    ScenarioAB =>
        /\ ScoredOf(<<"b">>).risk_flags = <<>>
        /\ ScoredOf(<<"b">>).exact.pen = 0
        /\ ScoredOf(<<"b">>).score = 2000
        /\ ScoredOf(<<"a">>).risk_flags = <<>>
        /\ ScoredOf(<<"a">>).score = 52
        /\ resp.body.recommendation = <<"a">>
        /\ resp.body.metrics = [expected_latency |-> 50, risk_factors |-> <<>>]
        /\ resp.body.alternatives =
             <<[broker |-> <<"b">>, score |-> 2000, latency_ms |-> 802,
                risk_flags |-> <<>>]>>

\* the scenario, its sources having reported in the order b, a
C7_Witness == ScenarioAB /\ store[1].broker = <<"b">>

----------------------------------------------------------------------------
(* Percentiles *)

\* the k-th smallest element of a list, k in 1..Len
OrderStat(lats, k) ==
    CHOOSE v \in {lats[i] : i \in DOMAIN lats} :
        /\ Cardinality({i \in DOMAIN lats : lats[i] < v}) < k
        /\ k <= Cardinality({i \in DOMAIN lats : lats[i] <= v})

\* the nearest-rank p99: sorted[min(floor(0.99 * n), n - 1)], 0-based
NearestRank(lats) ==
    LET n == Len(lats)
        idx == IF (99 * n) \div 100 < n - 1 THEN (99 * n) \div 100 ELSE n - 1
    IN  OrderStat(lats, idx + 1)

\* 100 times the linearly interpolated p99: with h = 0.99 * (n - 1),
\* sorted[floor(h)] + (h - floor(h)) * (sorted[floor(h) + 1] - sorted[floor(h)])
Interpolated100(lats) ==
    LET n == Len(lats)
        lo == (99 * (n - 1)) \div 100
        fr == (99 * (n - 1)) % 100
    IN  IF n = 1 THEN 100 * lats[1]
        ELSE 100 * OrderStat(lats, lo + 1)
               + fr * (OrderStat(lats, lo + 2) - OrderStat(lats, lo + 1))

----------------------------------------------------------------------------
(* Key issuance and the authenticated route *)

\* the keys create_api_key may draw ("sk_live_" and a random token); a draw
\* that repeats a stored key is included
IssuableKeys == {KeyUnknown, KeyRevoked, KeyActive}

\* admin_create_key.py create_api_key: the hash of the new key is stored with
\* is_active at its default; a hash already stored violates the unique index,
\* the commit raises and the table is left as it was
CreateApiKey(key) ==
    /\ api_keys' =
         IF \E i \in 1..Len(api_keys) : api_keys[i].key_hash = Sha256Hex(key)
         THEN api_keys
         ELSE Append(api_keys,
                     [id |-> Len(api_keys) + 1, key_hash |-> Sha256Hex(key),
                      user_id |-> "u3", owner_name |-> "o3", is_active |-> TRUE])
    /\ req' = [op |-> "create_api_key", key |-> key]
    /\ resp' = NoResponse
    /\ raw' = <<>>
    /\ groups' = <<>>
    /\ scored_brokers' = <<>>
    /\ key_lookups' = <<>>
    /\ UNCHANGED <<store, now>>

NextAuth ==
    \/ \E key \in IssuableKeys : CreateApiKey(key)
    \/ \E payload \in Payloads, dbOk \in BOOLEAN : SubmitTelemetry(payload, dbOk)
    \/ \E key \in PresentedKeys, urgency \in Urgencies : GetSmartRoute(key, urgency)

SpecAuth == Init /\ [][NextAuth]_vars

\* the presented key is a string that starts with "sk_"
WellFormed(key) ==
    /\ key # Null
    /\ Len(key) >= 3
    /\ key[1] = "s" /\ key[2] = "k" /\ key[3] = "_"

\* the rows of api_keys that hold the hash of the presented key
RecordsOf(key) ==
    {i \in 1..Len(api_keys) : api_keys[i].key_hash = Sha256Hex(key)}

\* C11: a route request is answered with a result (optimized or no_data)
\* exactly when its key starts with "sk_", its hash is that of a stored key
\* record and the record is active; a missing or badly formatted key gets 401
\* without any key lookup, an unknown key and a revoked key get 403 after one
\* lookup of the key's hash, and a rejected request computes and returns no
\* recommendation.
C11_RouteOnlyForActiveKey ==
    req.op = "route" =>
        /\ resp.code \in {200, 401, 403}
        /\ resp.code = 200 <=>
              /\ WellFormed(req.key)
              /\ \E i \in RecordsOf(req.key) : api_keys[i].is_active
        /\ resp.code = 401 <=> ~WellFormed(req.key)
        /\ resp.code = 401 => key_lookups = <<>>
        /\ resp.code = 403 =>
              /\ key_lookups = <<Sha256Hex(req.key)>>
              /\ \/ RecordsOf(req.key) = {}
                 \/ \A i \in RecordsOf(req.key) : ~api_keys[i].is_active
        /\ resp.code = 200 =>
              /\ key_lookups = <<Sha256Hex(req.key)>>
              /\ resp.body.status \in {"optimized", "no_data"}
        /\ resp.code # 200 =>
              /\ resp.body = Null
              /\ raw = <<>>
              /\ groups = <<>>
              /\ scored_brokers = <<>>

\* a revoked key is refused although a source of the window qualifies
C11_Witness ==
    /\ req.op = "route"
    /\ req.key = KeyRevoked
    /\ resp.code = 403
    /\ \E b \in StoredBrokers : InWindowCount(b) >= 3

====
